---- MODULE Spec2Model ----
(***************************************************************************)
(* A model of shastity's storage backends and their crypto wrappers        *)
(* (backend.py, backends/gpgcrypto.py), of FileMetaData's write protection *)
(* (metadata.py) and of the commands list_orphans and persist              *)
(* (commands.py).                                                          *)
(*                                                                         *)
(* Strings are sequences of byte values (0..255).  A backend's contents    *)
(* are a set of <<name, data>> pairs with at most one pair per name.       *)
(***************************************************************************)
EXTENDS Integers, Sequences, FiniteSets, TLC

VARIABLES
    stack,      \* the wrapper classes around the raw backend, outermost first
    cryptoKey,  \* the configured crypto-key secret of this client
    store,      \* the raw (innermost) backend's objects: a set of <<name, data>>
    ret,        \* the last backend call made through the outermost wrapper
    expect,     \* history: <<name, data>> put through the wrapper and not deleted
    nforeign,   \* history: puts made by a client configured with another key
    md_phase,   \* "new" before FileMetaData.__init__ has run, "done" after
    md_attrs,   \* the FileMetaData instance's __dict__: a set of <<key, value>>
    md_init,    \* history: md_attrs as __init__ left it
    md_ret,     \* the last attribute write on the instance
    conf,       \* the options: skip_blocks (a file or "None"), continue, label
    b_manifest, \* the manifest backend: a sequence of <<label, entries>>
    b_manifest0,\* history: the manifest backend when the command started
    b_data,     \* the names the data backend lists
    pc,         \* where the command that runs is
    p_alg,      \* persist's local variable alg ("unbound" until assigned)
    uploaded,   \* persist's list uploaded, as a set of <<alg, hash>>
    p_fail,     \* the stage at which persist raised ("" when it has not)
    sq_status,  \* the storage queue: a set of <<hash, status>>
    wm_calls,   \* history: the number of calls of manifest.write_manifest
    lo_ret,     \* the last run of list_orphans
    q_todo,     \* the hashes of the blocks the run has still to submit, in order
    q_handles,  \* the hashes of the submissions made to the storage queue, in order
    q_hist,     \* history: the statuses each hash has had in the storage queue
    q_puts,     \* history: the number of put calls the queue made for each hash
    cb_ret,     \* the last run of common_blocks
    ms_in,      \* the property dict given to mode_to_str
    ms_ret      \* what mode_to_str returned or raised

bvars == <<stack, cryptoKey, store, ret, expect, nforeign>>

mdvars == <<md_phase, md_attrs, md_init, md_ret>>

cmdvars == <<conf, b_manifest, b_manifest0, b_data, pc, p_alg, uploaded, p_fail,
             sq_status, wm_calls, lo_ret>>

sqvars == <<q_todo, q_handles, q_hist, q_puts>>

repvars == <<cb_ret, ms_in, ms_ret>>

vars == <<bvars, mdvars, cmdvars, sqvars, repvars>>

(***************************************************************************)
(* Bounds and input sets                                                   *)
(***************************************************************************)
MaxForeign == 1

MaxSubmit == 3

MaxNames == 2

MaxTypes == 2

Rep(c, n) == [i \in 1..n |-> c]

\* "", a name that fills one cipher block with its prefix, and a name
\* longer than a cipher block.
Names == { <<>>, Rep(97, 12), Rep(97, 17) }

\* "", "a", "a ", and a name that fills one cipher block with its prefix,
\* without and with a space after it
SpaceNames == { <<>>, <<97>>, <<97, 32>>, Rep(97, 12), Rep(97, 12) \o <<32>> }

\* a name of more than 100 characters, put to the raw backend only
LongName == Rep(108, 101)

\* "" and "d"
Data == { <<>>, <<100>> }

\* crypto-key secrets: this client's, and those of other clients
OwnKey == 1
Keys == 1..4

Stacks == { <<>>,
            <<"BackendWrapper">>,
            <<"DataCryptoGPG">>,
            <<"NameCrypto">>,
            <<"NameCrypto", "DataCryptoGPG">> }

(***************************************************************************)
(* Bytes                                                                   *)
(***************************************************************************)
RECURSIVE Xor(_, _)
Xor(a, b) ==
    IF a = 0 THEN b
    ELSE IF b = 0 THEN a
    ELSE ((a + b) % 2) + 2 * Xor(a \div 2, b \div 2)

RECURSIVE SumSeq(_)
SumSeq(s) == IF s = <<>> THEN 0 ELSE Head(s) + SumSeq(Tail(s))

\* struct.pack("!l", n): four bytes, network byte order
struct_pack(n) ==
    << (n \div 16777216) % 256, (n \div 65536) % 256, (n \div 256) % 256, n % 256 >>

\* struct.unpack("!l", b)[0]: a signed 32-bit integer
\* (the sign bit is the top bit of the first byte)
struct_unpack(b) ==
    LET hi == IF b[1] >= 128 THEN b[1] - 256 ELSE b[1]
    IN  hi * 16777216 + b[2] * 65536 + b[3] * 256 + b[4]

(***************************************************************************)
(* Results of calls: exc = "" is a normal return of val.                   *)
(***************************************************************************)
Ok(v) == [exc |-> "", val |-> v]
Raise(e) == [exc |-> e, val |-> <<>>]

Min(a, b) == IF a < b THEN a ELSE b

(***************************************************************************)
(* AES in CBC mode with PyCrypto's default IV of sixteen zero bytes, as    *)
(* NameCrypto uses it.  The block cipher is modelled by a keyed            *)
(* permutation of the 16-byte blocks (bytewise addition of the key).       *)
(***************************************************************************)
BlockSize == 16

ZeroIV == Rep(0, BlockSize)

AES_block_encrypt(k, b) == [i \in 1..BlockSize |-> (b[i] + k[i]) % 256]

AES_block_decrypt(k, c) == [i \in 1..BlockSize |-> (c[i] + 256 - k[i]) % 256]

XorBlock(a, b) == [i \in 1..BlockSize |-> Xor(a[i], b[i])]

RECURSIVE cbc_encrypt(_, _, _)
cbc_encrypt(k, prev, s) ==
    IF s = <<>> THEN <<>>
    ELSE LET c == AES_block_encrypt(k, XorBlock(SubSeq(s, 1, BlockSize), prev))
         IN  c \o cbc_encrypt(k, c, SubSeq(s, BlockSize + 1, Len(s)))

RECURSIVE cbc_decrypt(_, _, _)
cbc_decrypt(k, prev, s) ==
    IF s = <<>> THEN <<>>
    ELSE LET c == SubSeq(s, 1, BlockSize)
         IN  XorBlock(AES_block_decrypt(k, c), prev)
                 \o cbc_decrypt(k, c, SubSeq(s, BlockSize + 1, Len(s)))

\* crypt.encrypt(s) / crypt.decrypt(s): ValueError unless whole blocks
AES_encrypt(k, s) ==
    IF Len(s) % BlockSize # 0 THEN Raise("ValueError")
    ELSE Ok(cbc_encrypt(k, ZeroIV, s))

AES_decrypt(k, s) ==
    IF Len(s) % BlockSize # 0 THEN Raise("ValueError")
    ELSE Ok(cbc_decrypt(k, ZeroIV, s))

\* hash.make_hasher('sha512')(cryptoKey)[1][:16]: the cipher key derived
\* from the secret.  The keys of secrets 2 and 3 differ from secret 1's in
\* the byte that meets the low byte of the length prefix, secret 4's in the
\* byte that meets its sign byte.
make_key(secret) ==
    [i \in 1..BlockSize |->
        (17 * i + (IF secret = 2 /\ i = 4 THEN 3 ELSE 0)
                + (IF secret = 3 /\ i = 4 THEN 250 ELSE 0)
                + (IF secret = 4 /\ i = 1 THEN 128 ELSE 0)) % 256]

(***************************************************************************)
(* Hexadecimal rendering of names                                          *)
(***************************************************************************)
\* "%.2x" % v, as two characters
HexChar(v) == IF v < 10 THEN 48 + v ELSE 87 + v

RECURSIVE hex_encode(_)
hex_encode(s) ==
    IF s = <<>> THEN <<>>
    ELSE << HexChar(Head(s) \div 16), HexChar(Head(s) % 16) >> \o hex_encode(Tail(s))

HexVal(c) ==
    IF c \in 48..57 THEN c - 48
    ELSE IF c \in 97..102 THEN c - 87
    ELSE IF c \in 65..70 THEN c - 55
    ELSE -1

IsSpace(c) == c \in {32, 9, 11, 12, 13}

\* chr(int(x, 16)) for a two-character x; -1 stands for ValueError.
\* int() strips white space and takes a sign.  (Names hold no line feed,
\* which '.' would not match.)
int16(c1, c2) ==
    IF HexVal(c1) >= 0 /\ HexVal(c2) >= 0 THEN 16 * HexVal(c1) + HexVal(c2)
    ELSE IF IsSpace(c1) /\ HexVal(c2) >= 0 THEN HexVal(c2)
    ELSE IF HexVal(c1) >= 0 /\ IsSpace(c2) THEN HexVal(c1)
    ELSE IF c1 = 43 /\ HexVal(c2) >= 0 THEN HexVal(c2)
    ELSE IF c1 = 45 /\ c2 = 48 THEN 0
    ELSE -1

\* ''.join([chr(int(x,16)) for x in re.findall('(..)', cfn)]): an odd last
\* character is dropped
RECURSIVE hex_decode(_)
hex_decode(cfn) ==
    IF Len(cfn) < 2 THEN Ok(<<>>)
    ELSE LET v == int16(cfn[1], cfn[2])
             rest == hex_decode(SubSeq(cfn, 3, Len(cfn)))
         IN  IF v < 0 THEN Raise("ValueError")
             ELSE IF rest.exc # "" THEN rest
             ELSE Ok(<<v>> \o rest.val)

(***************************************************************************)
(* gpg, as encDec runs it.  gpg's symmetric encryption is modelled by a    *)
(* packet tag, a passphrase check byte, the data shifted by a key byte and *)
(* a one-byte modification detection code.  runs = FALSE is a gpg that     *)
(* exits non-zero for a reason of its own (no binary, no memory).          *)
(***************************************************************************)
GpgCheck(key) == (7 * key) % 256

GpgShift(key) == (11 * key) % 256

GpgMdc(data) == (SumSeq(data) + Len(data) + 1) % 256

gpg_encrypt(key, data) ==
    << 140, GpgCheck(key) >>
        \o [i \in 1..Len(data) |-> (data[i] + GpgShift(key)) % 256]
        \o << GpgMdc(data) >>

\* Raise("exit") stands for a non-zero exit status
gpg_decrypt(key, ct) ==
    IF Len(ct) < 3 \/ ct[1] # 140 \/ ct[2] # GpgCheck(key) THEN Raise("exit")
    ELSE LET body == SubSeq(ct, 3, Len(ct) - 1)
             plain == [i \in 1..Len(body) |-> (body[i] + 256 - GpgShift(key)) % 256]
         IN  IF ct[Len(ct)] # GpgMdc(plain) THEN Raise("exit") ELSE Ok(plain)

\* an encDec that returns what gpg wrote whatever its exit status
encDec_unchecked(key, data, extra, runs) ==
    IF ~runs THEN Ok(<<>>)
    ELSE IF extra = "-c --force-mdc" THEN Ok(gpg_encrypt(key, data))
    ELSE Ok(gpg_decrypt(key, data).val)

\* encDec: raise "GPG failed" when gpg exits non-zero
encDec(key, data, extra, runs) ==
    IF ~runs THEN Raise("GPG failed")
    ELSE IF extra = "-c --force-mdc" THEN Ok(gpg_encrypt(key, data))
    ELSE LET r == gpg_decrypt(key, data)
         IN  IF r.exc # "" THEN Raise("GPG failed") ELSE r

enc(key, data, runs) == encDec(key, data, "-c --force-mdc", runs)

dec(key, data, runs) == encDec(key, data, "", runs)

(***************************************************************************)
(* The raw backend: a name -> data store.                                  *)
(***************************************************************************)
names_of(s) == { o[1] : o \in s }

data_of(s, name) == (CHOOSE o \in s : o[1] = name)[2]

without(s, name) == { o \in s : o[1] # name }

MemoryBackend_put(s, args) ==
    IF Len(args) # 2 THEN [store |-> s, exc |-> "TypeError"]
    ELSE [store |-> without(s, args[1]) \cup { <<args[1], args[2]>> }, exc |-> ""]

MemoryBackend_get(s, name) ==
    IF name \in names_of(s) THEN Ok(data_of(s, name)) ELSE Raise("NotFoundError")

MemoryBackend_list(s) == [exc |-> "", names |-> names_of(s)]

\* a delete that reports success and removes nothing
MemoryBackend_delete_keeps(s, name) ==
    IF name \in names_of(s) THEN [store |-> s, exc |-> ""]
    ELSE [store |-> s, exc |-> "NotFoundError"]

MemoryBackend_delete(s, name) ==
    IF name \in names_of(s) THEN [store |-> without(s, name), exc |-> ""]
    ELSE [store |-> s, exc |-> "NotFoundError"]

\* Backend.delete, which no wrapper overrides
Backend_delete(s, name) == [store |-> s, exc |-> "NotImplementedError"]

(***************************************************************************)
(* NameCrypto.__enc and NameCrypto.__dec: NameCrypto__enc and              *)
(* NameCrypto__dec are the methods; NameCrypto_enc and NameCrypto_dec are  *)
(* the same maps, tabulated once over the names the model uses.            *)
(***************************************************************************)
\* an __enc that leaves out the length prefix
NameCrypto__enc_noprefix(secret, name) ==
    LET s0 == name
        s  == IF Len(s0) % 16 # 0 \/ s0 = <<>>
              THEN s0 \o Rep(32, 16 - (Len(s0) % 16))
              ELSE s0
    IN  hex_encode(AES_encrypt(make_key(secret), s).val)

NameCrypto__enc(secret, name) ==
    LET s0 == struct_pack(Len(name)) \o name
        s  == IF Len(s0) % 16 # 0
              THEN s0 \o Rep(32, 16 - (Len(s0) % 16))
              ELSE s0
    IN  hex_encode(AES_encrypt(make_key(secret), s).val)

\* a __dec that returns everything after the prefix, padding included
NameCrypto__dec_nocut(secret, cfn) ==
    LET s == hex_decode(cfn)
    IN  IF s.exc # "" THEN s
        ELSE LET d == AES_decrypt(make_key(secret), s.val)
             IN  IF d.exc # "" THEN d
                 ELSE IF Len(d.val) < 4 THEN Raise("struct.error")
                 ELSE LET l == struct_unpack(SubSeq(d.val, 1, 4))
                      IN  IF ~(0 < l /\ l < Len(d.val))
                          THEN Raise("TODO: I don't think your crypto key is correct")
                          ELSE Ok(SubSeq(d.val, 5, Len(d.val)))

\* a __dec that checks the prefix against zero only
NameCrypto__dec_nomax(secret, cfn) ==
    LET s == hex_decode(cfn)
    IN  IF s.exc # "" THEN s
        ELSE LET d == AES_decrypt(make_key(secret), s.val)
             IN  IF d.exc # "" THEN d
                 ELSE IF Len(d.val) < 4 THEN Raise("struct.error")
                 ELSE LET l == struct_unpack(SubSeq(d.val, 1, 4))
                      IN  IF ~(0 < l)
                          THEN Raise("TODO: I don't think your crypto key is correct")
                          ELSE Ok(SubSeq(d.val, 5, Min(4 + l, Len(d.val))))

NameCrypto__dec(secret, cfn) ==
    LET s == hex_decode(cfn)
    IN  IF s.exc # "" THEN s
        ELSE LET d == AES_decrypt(make_key(secret), s.val)
             IN  IF d.exc # "" THEN d
                 ELSE IF Len(d.val) < 4 THEN Raise("struct.error")
                 ELSE LET l == struct_unpack(SubSeq(d.val, 1, 4))
                      IN  IF ~(0 < l /\ l < Len(d.val))
                          THEN Raise("TODO: I don't think your crypto key is correct")
                          ELSE Ok(SubSeq(d.val, 5, Min(4 + l, Len(d.val))))

enc_table == [k \in Keys |-> [n \in Names |-> NameCrypto__enc(k, n)]]

CipherNames == { enc_table[k][n] : k \in Keys, n \in Names }

dec_table == [k \in Keys |-> [x \in CipherNames |-> NameCrypto__dec(k, x)]]

NameCrypto_enc(secret, name) ==
    IF secret \in Keys /\ name \in Names THEN enc_table[secret][name]
    ELSE NameCrypto__enc(secret, name)

NameCrypto_dec(secret, cfn) ==
    IF secret \in Keys /\ cfn \in CipherNames THEN dec_table[secret][cfn]
    ELSE NameCrypto__dec(secret, cfn)

(***************************************************************************)
(* The wrapper classes.  st is the stack of wrappers from this one inwards *)
(* (Tail(st) is self.next); next_* dispatch on the class of self.next.     *)
(* args is the argument tuple that put receives.                           *)
(***************************************************************************)
RECURSIVE next_put(_, _, _, _, _)
RECURSIVE next_get(_, _, _, _, _)
RECURSIVE next_list(_, _, _)

BackendWrapper_put(st, s, key, args, runs) == next_put(Tail(st), s, key, args, runs)

\* return self.next.put of the arguments: the put's store and exception, and None
BackendWrapper_get(st, s, key, name, runs) ==
    LET r == next_put(Tail(st), s, key, <<name>>, runs)
    IN  [store |-> r.store, exc |-> r.exc, val |-> <<>>]

BackendWrapper_list(st, s, key) == next_list(Tail(st), s, key)

DataCryptoGPG_put(st, s, key, args, runs) ==
    IF Len(args) # 2 THEN [store |-> s, exc |-> "TypeError"]
    ELSE LET e == enc(key, args[2], runs)
         IN  IF e.exc # "" THEN [store |-> s, exc |-> e.exc]
             ELSE next_put(Tail(st), s, key, <<args[1], e.val>>, runs)

\* a get that hands out what the inner backend holds
DataCryptoGPG_get_nodec(st, s, key, name, runs) ==
    next_get(Tail(st), s, key, name, runs)

DataCryptoGPG_get(st, s, key, name, runs) ==
    LET r == next_get(Tail(st), s, key, name, runs)
    IN  IF r.exc # "" THEN r
        ELSE LET d == dec(key, r.val, runs)
             IN  [store |-> r.store, exc |-> d.exc, val |-> d.val]

\* a put that stores under the name as given
NameCrypto_put_plain(st, s, key, args, runs) ==
    IF Len(args) # 2 THEN [store |-> s, exc |-> "TypeError"]
    ELSE next_put(Tail(st), s, key, args, runs)

NameCrypto_put(st, s, key, args, runs) ==
    IF Len(args) # 2 THEN [store |-> s, exc |-> "TypeError"]
    ELSE next_put(Tail(st), s, key, <<NameCrypto_enc(key, args[1]), args[2]>>, runs)

NameCrypto_get(st, s, key, name, runs) ==
    next_get(Tail(st), s, key, NameCrypto_enc(key, name), runs)

NameCrypto_list(st, s, key) ==
    LET r == next_list(Tail(st), s, key)
        decs == { NameCrypto_dec(key, x) : x \in r.names }
    IN  IF r.exc # "" THEN r
        ELSE IF \E d \in decs : d.exc # ""
        THEN [exc |-> (CHOOSE d \in decs : d.exc # "").exc, names |-> {}]
        ELSE [exc |-> "", names |-> { d.val : d \in decs }]

next_put(st, s, key, args, runs) ==
    IF st = <<>> THEN MemoryBackend_put(s, args)
    ELSE IF Head(st) = "BackendWrapper" THEN BackendWrapper_put(st, s, key, args, runs)
    ELSE IF Head(st) = "DataCryptoGPG" THEN DataCryptoGPG_put(st, s, key, args, runs)
    ELSE NameCrypto_put(st, s, key, args, runs)

next_get(st, s, key, name, runs) ==
    IF st = <<>>
    THEN LET r == MemoryBackend_get(s, name)
         IN  [store |-> s, exc |-> r.exc, val |-> r.val]
    ELSE IF Head(st) = "BackendWrapper" THEN BackendWrapper_get(st, s, key, name, runs)
    ELSE IF Head(st) = "DataCryptoGPG" THEN DataCryptoGPG_get(st, s, key, name, runs)
    ELSE NameCrypto_get(st, s, key, name, runs)

next_list(st, s, key) ==
    IF st = <<>> THEN MemoryBackend_list(s)
    ELSE IF Head(st) = "NameCrypto" THEN NameCrypto_list(st, s, key)
    ELSE BackendWrapper_list(st, s, key)

next_delete(st, s, key, name) ==
    IF st = <<>> THEN MemoryBackend_delete(s, name)
    ELSE Backend_delete(s, name)

(***************************************************************************)
(* Calls through the outermost wrapper                                     *)
(***************************************************************************)
NoRet == [op |-> "", name |-> <<>>, data |-> <<>>, exc |-> "", val |-> <<>>, names |-> {}]

Put(n, d, runs) ==
    LET r == next_put(stack, store, cryptoKey, <<n, d>>, runs)
    IN  /\ store' = r.store
        /\ ret' = [NoRet EXCEPT !.op = "put", !.name = n, !.data = d, !.exc = r.exc]
        /\ expect' = IF r.exc = "" THEN without(expect, n) \cup { <<n, d>> } ELSE expect
        /\ UNCHANGED <<stack, cryptoKey, nforeign, mdvars, cmdvars, sqvars, repvars>>

Get(n, runs) ==
    LET r == next_get(stack, store, cryptoKey, n, runs)
    IN  /\ store' = r.store
        /\ ret' = [NoRet EXCEPT !.op = "get", !.name = n, !.exc = r.exc, !.val = r.val]
        /\ UNCHANGED <<stack, cryptoKey, expect, nforeign, mdvars, cmdvars, sqvars, repvars>>

List ==
    LET r == next_list(stack, store, cryptoKey)
    IN  /\ ret' = [NoRet EXCEPT !.op = "list", !.exc = r.exc, !.names = r.names]
        /\ UNCHANGED <<stack, cryptoKey, store, expect, nforeign, mdvars, cmdvars, sqvars, repvars>>

Delete(n) ==
    LET r == next_delete(stack, store, cryptoKey, n)
    IN  /\ store' = r.store
        /\ ret' = [NoRet EXCEPT !.op = "delete", !.name = n, !.exc = r.exc]
        /\ expect' = IF r.exc = "" THEN without(expect, n) ELSE expect
        /\ UNCHANGED <<stack, cryptoKey, nforeign, mdvars, cmdvars, sqvars, repvars>>

\* A client configured with another crypto-key puts through the same stack.
ForeignPut(k, n) ==
    /\ nforeign < MaxForeign
    /\ \E i \in 1..Len(stack) : stack[i] # "BackendWrapper"
    /\ k # cryptoKey
    /\ store' = next_put(stack, store, k, <<n, <<100>> >>, TRUE).store
    /\ nforeign' = nforeign + 1
    /\ UNCHANGED <<stack, cryptoKey, ret, expect, mdvars, cmdvars, sqvars, repvars>>

InputNames == IF stack = <<>> THEN Names \cup {LongName} ELSE Names

BNext ==
    \/ \E n \in InputNames, d \in Data, runs \in BOOLEAN : Put(n, d, runs)
    \/ \E n \in InputNames, runs \in BOOLEAN : Get(n, runs)
    \/ List
    \/ \E n \in InputNames : Delete(n)
    \/ \E k \in Keys, n \in Names : ForeignPut(k, n)

(***************************************************************************)
(* FileMetaData (metadata.py).  Attribute values are "None", "False" and   *)
(* "True"; an attribute name is private when it starts with an underscore. *)
(***************************************************************************)
propnames ==
    << "is_directory", "is_character_device", "is_block_device", "is_regular",
       "is_fifo", "is_symlink", "uid", "gid", "size", "atime", "mtime", "ctime",
       "is_setuid", "is_setgid", "is_sticky", "yser_read", "group_read",
       "other_read", "user_write", "group_write", "other_write",
       "user_execute", "group_execute", "other_execute" >>

\* self.__write_protected, as Python mangles the name
WriteProtected == "_FileMetaData__write_protected"

startswith_underscore(key) == key \in { WriteProtected, "_cache" }

Values == { "None", "False", "True" }

Truthy(v) == v = "True"

has_attr(attrs, key) == \E a \in attrs : a[1] = key

attr(attrs, key) == (CHOOSE a \in attrs : a[1] = key)[2]

\* FileMetaData.__setattr__
\* a __setattr__ without the write protection
FileMetaData_setattr_unprotected(attrs, key, value) ==
    [attrs |-> { a \in attrs : a[1] # key } \cup { <<key, value>> }, exc |-> ""]

FileMetaData_setattr(attrs, key, value) ==
    IF ~startswith_underscore(key) /\ ~has_attr(attrs, WriteProtected)
    THEN [attrs |-> attrs, exc |-> "AttributeError"]
    ELSE IF ~startswith_underscore(key) /\ Truthy(attr(attrs, WriteProtected))
    THEN [attrs |-> attrs, exc |-> "AssertionError"]
    ELSE [attrs |-> { a \in attrs : a[1] # key } \cup { <<key, value>> }, exc |-> ""]

\* the setattr loops of __init__: the attributes after writing pairs[1..n],
\* or the first exception
RECURSIVE setattr_all(_, _)
setattr_all(r, pairs) ==
    IF r.exc # "" \/ pairs = <<>> THEN r
    ELSE setattr_all(FileMetaData_setattr(r.attrs, Head(pairs)[1], Head(pairs)[2]),
                     Tail(pairs))

\* FileMetaData.__init__(props, other): other is an instance's attributes
\* or {} for None, props a sequence of <<key, value>> or <<>> for None
FileMetaData_init(props, other) ==
    LET a0 == FileMetaData_setattr({}, WriteProtected, "False")
        a1 == IF other # {}
              THEN setattr_all(a0, [i \in 1..Len(propnames) |->
                                       <<propnames[i], attr(other, propnames[i])>>])
              ELSE setattr_all(a0, [i \in 1..Len(propnames) |-> <<propnames[i], "None">>])
        a2 == setattr_all(a1, props)
    IN  IF a2.exc # "" THEN a2
        ELSE FileMetaData_setattr(a2.attrs, WriteProtected, "True")

\* the instances and dicts that construction is tried with
OtherInstance ==
    { <<propnames[i], IF propnames[i] = "gid" THEN "True" ELSE "None">> :
          i \in 1..Len(propnames) } \cup { <<WriteProtected, "True">> }

PropDicts == { <<>>,
               << <<"uid", "True">> >>,
               << <<"is_regular", "True">>, <<"user_read", "True">> >> }

WriteKeys == { "uid", "is_regular", "_cache", WriteProtected }

NoWrite == [op |-> "", key |-> "", value |-> "None", exc |-> ""]

Construct(props, other) ==
    LET r == FileMetaData_init(props, other)
    IN  /\ md_phase = "new"
        /\ r.exc = ""
        /\ md_phase' = "done"
        /\ md_attrs' = r.attrs
        /\ md_init' = r.attrs
        /\ md_ret' = NoWrite
        /\ UNCHANGED <<bvars, cmdvars, sqvars, repvars>>

SetAttr(key, value) ==
    LET r == FileMetaData_setattr(md_attrs, key, value)
    IN  /\ md_phase = "done"
        /\ md_attrs' = r.attrs
        /\ md_ret' = [op |-> "setattr", key |-> key, value |-> value, exc |-> r.exc]
        /\ UNCHANGED <<md_phase, md_init, bvars, cmdvars, sqvars, repvars>>

MDNext ==
    \/ \E props \in PropDicts, other \in { {}, OtherInstance } : Construct(props, other)
    \/ \E key \in WriteKeys, value \in Values : SetAttr(key, value)

(***************************************************************************)
(* metadata.py: mode_to_str.  Its argument d is anything with d[key]: a    *)
(* dict, or a FileMetaData.  It is modelled by the keys that d[key] is     *)
(* defined for and the keys whose value is true; a string is the sequence  *)
(* of its characters.                                                      *)
(***************************************************************************)
\* the type flags in the order mode_to_str tests them, with their characters
TypeOrder == << <<"is_regular", "-">>, <<"is_block_device", "b">>,
                <<"is_character_device", "c">>, <<"is_directory", "d">>,
                <<"is_symlink", "l">>, <<"is_fifo", "p">> >>

TypeFlags == { TypeOrder[i][1] : i \in 1..Len(TypeOrder) }

\* the permission keys in the order mode_to_str reads them: read, write,
\* execute and the special bit of user, group and other, with the characters
\* of the special bit with and without execute
PermOrder == << <<"user_read", "user_write", "user_execute", "is_setuid", "s", "S">>,
                <<"group_read", "group_write", "group_execute", "is_setgid", "s", "S">>,
                <<"other_read", "other_write", "other_execute", "is_sticky", "t", "T">> >>

PermKeys == UNION { { PermOrder[i][j] : j \in 1..4 } : i \in 1..Len(PermOrder) }

ModeKeys == TypeFlags \cup PermKeys

\* the if/elif chain over the type flags, from the i-th on
RECURSIVE type_char(_, _)
type_char(d, i) ==
    IF i > Len(TypeOrder) THEN Raise("AssertionError")
    ELSE IF TypeOrder[i][1] \notin d.keys THEN Raise("KeyError")
    ELSE IF TypeOrder[i][1] \in d.true THEN Ok(<<TypeOrder[i][2]>>)
    ELSE type_char(d, i + 1)

\* three characters that show the special bit only beside execute
perm_chars_nocap(d, c) ==
    << IF c[1] \in d.true THEN "r" ELSE "-",
       IF c[2] \in d.true THEN "w" ELSE "-",
       IF c[3] \in d.true
       THEN (IF c[4] \in d.true THEN c[5] ELSE "x")
       ELSE "-" >>

\* the three characters of user, group or other
perm_chars(d, c) ==
    << IF c[1] \in d.true THEN "r" ELSE "-",
       IF c[2] \in d.true THEN "w" ELSE "-",
       IF c[3] \in d.true
       THEN (IF c[4] \in d.true THEN c[5] ELSE "x")
       ELSE (IF c[4] \in d.true THEN c[6] ELSE "-") >>

mode_to_str(d) ==
    LET chars == type_char(d, 1)
    IN  IF chars.exc # "" THEN chars
        ELSE IF "is_symlink" \notin d.keys THEN Raise("KeyError")
        ELSE IF "is_symlink" \in d.true
        THEN Ok(chars.val \o <<"r", "w", "x", "r", "-", "x", "r", "-", "x">>)
        ELSE IF ~(PermKeys \subseteq d.keys) THEN Raise("KeyError")
        ELSE Ok(chars.val \o perm_chars(d, PermOrder[1]) \o perm_chars(d, PermOrder[2])
                          \o perm_chars(d, PermOrder[3]))

\* mode_to_str not called
NoDict == [keys |-> {}, true |-> {}]

NoMode == [called |-> FALSE, exc |-> "", val |-> <<>>]

\* the property dicts given to mode_to_str: every key, at most MaxTypes type
\* flags true, any permission bits
ModeDicts == { [keys |-> ModeKeys, true |-> ty \cup pm] :
                  ty \in { s \in SUBSET TypeFlags : Cardinality(s) <= MaxTypes },
                  pm \in SUBSET PermKeys }

ModeToStr ==
    LET r == mode_to_str(ms_in)
    IN  /\ ms_in # NoDict
        /\ ~ms_ret.called
        /\ ms_ret' = [called |-> TRUE, exc |-> r.exc, val |-> r.val]
        /\ UNCHANGED <<bvars, mdvars, cmdvars, sqvars, cb_ret, ms_in>>

\* FileMetaData.__getitem__
FileMetaData_getitem(attrs, key) ==
    IF \E i \in 1..Len(propnames) : propnames[i] = key
    THEN (IF has_attr(attrs, key) THEN Ok(attr(attrs, key)) ELSE Raise("AttributeError"))
    ELSE Raise("KeyError")

\* a FileMetaData as mode_to_str's argument: the keys that md[key] is
\* defined for, and those whose value is true
as_propdict(attrs) ==
    [keys |-> { k \in ModeKeys : FileMetaData_getitem(attrs, k).exc = "" },
     true |-> { k \in ModeKeys : /\ FileMetaData_getitem(attrs, k).exc = ""
                                 /\ Truthy(FileMetaData_getitem(attrs, k).val) }]

\* mode_to_str(md) for the FileMetaData instance
ModeToStrMD ==
    LET r == mode_to_str(as_propdict(md_attrs))
    IN  /\ md_phase = "done"
        /\ ms_in' = as_propdict(md_attrs)
        /\ ms_ret' = [called |-> TRUE, exc |-> r.exc, val |-> r.val]
        /\ UNCHANGED <<bvars, mdvars, cmdvars, sqvars, cb_ret>>

MDModeNext ==
    \/ \E props \in PropDicts, other \in { {}, OtherInstance } : Construct(props, other)
    \/ \E key \in WriteKeys, value \in Values : SetAttr(key, value)
    \/ ModeToStrMD

(***************************************************************************)
(* commands.py: the manifests, list_orphans and persist.  A block          *)
(* fingerprint is <<algorithm, hash>>; a manifest entry is                 *)
(* <<name, attributes, fingerprints>>; a hash is a string, 128 characters  *)
(* long when it is a sha512 digest.                                        *)
(***************************************************************************)
CONCURRENCY == 10

Digests == { "h1", "h2", "h3" }

\* len(hash) after hash.strip()
len_of(hash) == IF hash \in Digests THEN 128 ELSE 0

fp(h) == <<"sha512", h>>

RECURSIVE concat_all(_)
concat_all(z) == IF z = <<>> THEN <<>> ELSE Head(z) \o concat_all(Tail(z))

\* flatten(z): reduce(lambda x,y: x + y, z), a TypeError on an empty z
flatten(z) == IF z = <<>> THEN Raise("TypeError") ELSE Ok(concat_all(z))

RECURSIVE dedup(_)
dedup(s) ==
    IF s = <<>> THEN <<>>
    ELSE LET r == dedup(SubSeq(s, 1, Len(s) - 1))
         IN  IF \E i \in 1..Len(r) : r[i] = s[Len(s)] THEN r ELSE Append(r, s[Len(s)])

elems(s) == { s[i] : i \in 1..Len(s) }

\* manifest.list_manifests and manifest.read_manifest over the backend
get_all_manifests(be) == be

\* zip(*lmfs)[1]: the manifests without their labels
manifests_of(lmfs) == [i \in 1..Len(lmfs) |-> lmfs[i][2]]

get_all_blockhashes(mfs, unique) ==
    LET entries == flatten(mfs)
    IN  IF entries.exc # "" THEN entries
        ELSE LET r == flatten([i \in 1..Len(entries.val) |-> entries.val[i][3]])
             IN  IF r.exc # "" THEN r
                 ELSE IF unique THEN Ok(dedup(r.val)) ELSE r

\* (algo, hash) in all_blocks: the listing holds strings, and a tuple never
\* equals a string
in_listing(t, all_blocks) == \E s \in all_blocks : FALSE

\* list_orphans: what it prints, or the exception it ends with
list_orphans(data_names, be) ==
    LET all_blocks == data_names
        lmfs == get_all_manifests(be)
    IN  IF lmfs = <<>> THEN [exc |-> "ValueError", printed |-> {}]
        ELSE LET mf_blocks == get_all_blockhashes(manifests_of(lmfs), FALSE)
             IN  IF mf_blocks.exc # "" THEN [exc |-> mf_blocks.exc, printed |-> {}]
                 ELSE [exc |-> "",
                       printed |-> { h \in all_blocks : ~in_listing(fp(h), all_blocks) }]

\* the options, the backends and the tree that the commands are run with
Manifest1 == << "m1", << <<"f1", "md", <<fp("h1"), fp("h2")>> >> >> >>

Manifest2 == << "m2", << <<"d", "md", <<>> >>, <<"f2", "md", <<fp("h2")>> >> >> >>

ManifestDirs == << "m3", << <<"d", "md", <<>> >> >> >>

ManifestEmpty == << "m0", <<>> >>

ManifestBackends == { <<>>, <<ManifestEmpty>>, <<ManifestDirs>>, <<Manifest1>>,
                      <<Manifest1, Manifest2>>, <<ManifestEmpty, Manifest1>> }

DataListings == { {}, {"h1"}, {"h1", "h3"}, {"h2", "junk"} }

\* the skip-blocks option: not given, a file that open() fails on, or a
\* file with these lines (stripped)
NoSkipFile == [given |-> FALSE, readable |-> FALSE, lines |-> <<>>]

SkipFile(lines) == [given |-> TRUE, readable |-> TRUE, lines |-> lines]

SkipFiles == { NoSkipFile,
               [given |-> TRUE, readable |-> FALSE, lines |-> <<>>],
               SkipFile(<<>>), SkipFile(<<"h1">>),
               SkipFile(<<"junk", "h3">>), SkipFile(<<"h3", "junk">>) }

Confs == [skip_blocks : SkipFiles, continue : {"None", "False", "True"},
          label : {"m1", "m9"}]

\* the manifests named on common_blocks' command line
Labels == { "m0", "m1", "m2", "m3" }

LabelLists == UNION { [1..n -> Labels] : n \in 1..MaxNames }

\* the hashes of the blocks that a run comes to, in order
Streams == UNION { [1..n -> Digests] : n \in 0..MaxSubmit }

\* the traversal's nodes with the fingerprints of their blocks
SrcTree == << <<"f1", "md", <<fp("h1"), fp("h3")>> >>,
              <<"d1", "md", <<>> >>,
              <<"f2", "md", <<fp("h3")>> >> >>

NoOrphans == [exc |-> "", printed |-> {}]

\* config's Option.get_required(): the value, or RequiredOptionMissingError
\* for an option that was not given
get_required(value, given) ==
    IF given THEN Ok(value) ELSE Raise("RequiredOptionMissingError")

\* the two loops of persist that append (alg, hash) for each hash: the local
\* alg is assigned only by a hash of 128 characters
RECURSIVE load_hashes(_, _, _)
load_hashes(hashes, alg, upl) ==
    IF hashes = <<>> THEN [exc |-> "", alg |-> alg, uploaded |-> upl]
    ELSE LET hash == Head(hashes)
             alg2 == IF len_of(hash) = 128 THEN "sha512" ELSE alg
         IN  IF alg2 = "unbound"
             THEN [exc |-> "UnboundLocalError", alg |-> alg, uploaded |-> upl]
             ELSE load_hashes(Tail(hashes), alg2, upl \cup { <<alg2, hash>> })

\* persist, lines 173-183: the skip-blocks file
persist_skip_blocks(c, alg, upl) ==
    LET path == get_required(c.skip_blocks, c.skip_blocks.given)
    IN  IF path.exc = "RequiredOptionMissingError"
        THEN [exc |-> "", alg |-> alg, uploaded |-> upl]
        ELSE IF ~c.skip_blocks.readable
        THEN [exc |-> "IOError", alg |-> alg, uploaded |-> upl]
        ELSE load_hashes(c.skip_blocks.lines, alg, upl)

\* a scan of the old manifests that does not look at the skip-blocks option
persist_old_manifests_always(c, be, be_fails, alg, upl) ==
    IF be_fails THEN [exc |-> "BackendIOError", alg |-> alg, uploaded |-> upl]
    ELSE LET mfs == get_all_manifests(be)
         IN  IF Len(mfs) = 0 THEN [exc |-> "", alg |-> alg, uploaded |-> upl]
             ELSE LET r == get_all_blockhashes(manifests_of(mfs), TRUE)
                  IN  IF r.exc # "" THEN [exc |-> r.exc, alg |-> alg, uploaded |-> upl]
                      ELSE [exc |-> "", alg |-> alg, uploaded |-> upl \cup elems(r.val)]

\* persist, lines 185-190: the old manifests (be_fails: the backend raises)
persist_old_manifests(c, be, be_fails, alg, upl) ==
    IF c.skip_blocks.given THEN [exc |-> "", alg |-> alg, uploaded |-> upl]
    ELSE IF be_fails THEN [exc |-> "BackendIOError", alg |-> alg, uploaded |-> upl]
    ELSE LET mfs == get_all_manifests(be)
         IN  IF Len(mfs) = 0 THEN [exc |-> "", alg |-> alg, uploaded |-> upl]
             ELSE LET r == get_all_blockhashes(manifests_of(mfs), TRUE)
                  IN  IF r.exc # "" THEN [exc |-> r.exc, alg |-> alg, uploaded |-> upl]
                      ELSE [exc |-> "", alg |-> alg, uploaded |-> upl \cup elems(r.val)]

\* persist, lines 192-198: the data backend's listing, in the order the
\* backend gives it
persist_continue(c, listing, be_fails, alg, upl) ==
    LET cont == get_required(c.continue, c.continue # "None")
    IN  IF cont.exc # "" THEN [exc |-> cont.exc, alg |-> alg, uploaded |-> upl]
        ELSE IF cont.val # "True" THEN [exc |-> "", alg |-> alg, uploaded |-> upl]
        ELSE IF be_fails THEN [exc |-> "BackendIOError", alg |-> alg, uploaded |-> upl]
        ELSE load_hashes(listing, alg, upl)

Orders(S) == { s \in [1..Cardinality(S) -> S] : \A i, j \in 1..Cardinality(S) :
                                                   i # j => s[i] # s[j] }

\* persist up to the run: the skip-set is built, or persist raises
PersistSkipSet(be_fails, listing) ==
    LET r1 == persist_skip_blocks(conf, p_alg, uploaded)
        r2 == IF r1.exc # "" THEN r1
              ELSE persist_old_manifests(conf, b_manifest, be_fails, r1.alg, r1.uploaded)
        r3 == IF r2.exc # "" THEN r2
              ELSE persist_continue(conf, listing, be_fails, r2.alg, r2.uploaded)
    IN  /\ pc = "idle"
        /\ p_alg' = r3.alg
        /\ uploaded' = r3.uploaded
        /\ pc' = IF r3.exc # "" THEN "aborted" ELSE "run"
        /\ p_fail' = IF r3.exc # "" THEN "skip-set" ELSE ""
        /\ UNCHANGED <<conf, b_manifest, b_manifest0, b_data, sq_status, wm_calls,
                       lo_ret, bvars, mdvars, sqvars, repvars>>

\* the fingerprints of a tree's blocks
tree_blocks(tree) == UNION { elems(tree[i][3]) : i \in 1..Len(tree) }

\* persistence.persist hands every block that is not in skip_blocks to the
\* storage queue
PersistSubmit ==
    /\ pc = "run"
    /\ sq_status' = { <<b[2], "pending">> : b \in tree_blocks(SrcTree) \ uploaded }
    /\ q_hist' = [h \in Digests |->
                     IF <<h, "pending">> \in sq_status' THEN <<"pending">> ELSE <<>>]
    /\ pc' = "queue"
    /\ UNCHANGED <<conf, b_manifest, b_manifest0, b_data, p_alg, uploaded, p_fail,
                   wm_calls, lo_ret, bvars, mdvars, q_todo, q_handles, q_puts, repvars>>

\* a submit that enqueues the block whatever the queue knows of its hash
sq_submit_again(sq, h) == { s \in sq : s[1] # h } \cup { <<h, "pending">> }

\* StorageQueue submit: the block is enqueued unless the queue has its hash
sq_submit(sq, h) ==
    IF \E s \in sq : s[1] = h THEN sq ELSE sq \cup { <<h, "pending">> }

\* persistence.persist comes to its next block: a block of the skip-set is
\* not submitted, another one is
SqSubmit ==
    LET h == Head(q_todo)
    IN  /\ pc = "queue"
        /\ q_todo # <<>>
        /\ q_todo' = Tail(q_todo)
        /\ IF fp(h) \in uploaded
           THEN UNCHANGED <<sq_status, q_handles, q_hist>>
           ELSE /\ sq_status' = sq_submit(sq_status, h)
                /\ q_handles' = Append(q_handles, h)
                /\ q_hist' = IF <<h, "pending">> \in sq_status' \ sq_status
                             THEN [q_hist EXCEPT ![h] = Append(@, "pending")]
                             ELSE q_hist
        /\ UNCHANGED <<conf, b_manifest, b_manifest0, b_data, pc, p_alg, uploaded,
                       p_fail, wm_calls, lo_ret, bvars, mdvars, q_puts, repvars>>

\* a worker of the storage queue takes a pending block
SqStart(h) ==
    /\ pc = "queue"
    /\ <<h, "pending">> \in sq_status
    /\ Cardinality({ s \in sq_status : s[2] = "in-flight" }) < CONCURRENCY
    /\ sq_status' = (sq_status \ { <<h, "pending">> }) \cup { <<h, "in-flight">> }
    /\ q_hist' = [q_hist EXCEPT ![h] = Append(@, "in-flight")]
    /\ q_puts' = [q_puts EXCEPT ![h] = @ + 1]
    /\ UNCHANGED <<conf, b_manifest, b_manifest0, b_data, pc, p_alg, uploaded, p_fail,
                   wm_calls, lo_ret, bvars, mdvars, q_todo, q_handles, repvars>>

\* its put to the data backend returns, or raises
SqFinish(h, ok) ==
    /\ pc = "queue"
    /\ <<h, "in-flight">> \in sq_status
    /\ sq_status' = (sq_status \ { <<h, "in-flight">> })
                        \cup { <<h, IF ok THEN "done" ELSE "failed">> }
    /\ b_data' = IF ok THEN b_data \cup {h} ELSE b_data
    /\ q_hist' = [q_hist EXCEPT ![h] = Append(@, IF ok THEN "done" ELSE "failed")]
    /\ UNCHANGED <<conf, b_manifest, b_manifest0, pc, p_alg, uploaded, p_fail,
                   wm_calls, lo_ret, bvars, mdvars, q_todo, q_handles, q_puts, repvars>>

\* a run that returns the entries whatever the queue reports
persist_after_run_ignoring(sq) == "write"

\* persist, lines 205-212: list(persistence.persist(...)) returns the
\* manifest's entries or raises the queue's failure; write_manifest follows
\* a return
persist_after_run(sq) ==
    IF \E s \in sq : s[2] = "failed" THEN "aborted" ELSE "write"

\* the queue has drained and persistence.persist ends
PersistRunEnd ==
    /\ pc = "queue"
    /\ q_todo = <<>>
    /\ \A s \in sq_status : s[2] \in {"done", "failed"}
    /\ pc' = persist_after_run(sq_status)
    /\ p_fail' = IF pc' = "aborted" THEN "run" ELSE ""
    /\ UNCHANGED <<conf, b_manifest, b_manifest0, b_data, p_alg, uploaded, sq_status,
                   wm_calls, lo_ret, bvars, mdvars, sqvars, repvars>>

labels_of(be) == { be[i][1] : i \in 1..Len(be) }

\* manifest.write_manifest: DuplicateLabelError for a label that exists
write_manifest(be, label, mf) ==
    IF label \in labels_of(be) THEN [be |-> be, exc |-> "DuplicateLabelError"]
    ELSE [be |-> Append(be, <<label, mf>>), exc |-> ""]

PersistWriteManifest ==
    LET r == write_manifest(b_manifest, conf.label, SrcTree)
    IN  /\ pc = "write"
        /\ wm_calls' = wm_calls + 1
        /\ b_manifest' = r.be
        /\ pc' = IF r.exc # "" THEN "aborted" ELSE "done"
        /\ p_fail' = IF r.exc # "" THEN "write_manifest" ELSE ""
        /\ UNCHANGED <<conf, b_manifest0, b_data, p_alg, uploaded, sq_status,
                       lo_ret, bvars, mdvars, sqvars, repvars>>

\* manifest.read_manifest(b, x) for a label that is on the backend
read_manifest(be, label) == (CHOOSE m \in elems(be) : m[1] = label)[2]

\* list.count(x)
count(s, x) == Cardinality({ i \in 1..Len(s) : s[i] = x })

\* common_blocks: the numbers it prints, or the exception it ends with
common_blocks(be, mf_names) ==
    LET mfs == [i \in 1..Len(mf_names) |-> read_manifest(be, mf_names[i])]
        blocks == [i \in 1..Len(mfs) |-> get_all_blockhashes(<<mfs[i]>>, TRUE)]
        all_blocks == flatten([i \in 1..Len(blocks) |-> blocks[i].val])
        before == [i \in 1..Len(blocks) |-> Len(blocks[i].val)]
        shared == { x \in elems(all_blocks.val) :
                       count(all_blocks.val, x) = Len(mf_names) }
        removed == [i \in 1..Len(blocks) |->
                       SelectSeq(blocks[i].val, LAMBDA x : x \notin shared)]
        after == [i \in 1..Len(blocks) |-> Len(removed[i])]
    IN  IF \E i \in 1..Len(blocks) : blocks[i].exc # ""
        THEN [exc |-> "TypeError", unique |-> <<>>, common |-> 0]
        ELSE IF all_blocks.exc # ""
        THEN [exc |-> all_blocks.exc, unique |-> <<>>, common |-> 0]
        ELSE IF \E i \in 1..Len(blocks) : \E x \in shared : x \notin elems(blocks[i].val)
        THEN [exc |-> "ValueError", unique |-> <<>>, common |-> 0]
        ELSE [exc |-> "", unique |-> after, common |-> before[1] - after[1]]

NoCommon == [names |-> <<>>, exc |-> "", unique |-> <<>>, common |-> 0]

CommonBlocks(mf_names) ==
    LET r == common_blocks(b_manifest, mf_names)
    IN  /\ pc = "idle"
        /\ \A i \in 1..Len(mf_names) : mf_names[i] \in labels_of(b_manifest)
        /\ pc' = "common"
        /\ cb_ret' = [names |-> mf_names, exc |-> r.exc, unique |-> r.unique,
                      common |-> r.common]
        /\ UNCHANGED <<conf, b_manifest, b_manifest0, b_data, p_alg, uploaded,
                       p_fail, sq_status, wm_calls, lo_ret, bvars, mdvars, sqvars,
                       ms_in, ms_ret>>

ListOrphans ==
    LET r == list_orphans(b_data, b_manifest)
    IN  /\ pc = "idle"
        /\ pc' = "listed"
        /\ lo_ret' = [exc |-> r.exc, printed |-> r.printed]
        /\ UNCHANGED <<conf, b_manifest, b_manifest0, b_data, p_alg, uploaded,
                       p_fail, sq_status, wm_calls, bvars, mdvars, sqvars, repvars>>

(***************************************************************************)
(* Specifications                                                          *)
(***************************************************************************)
\* a wrapper stack over an empty raw backend
Init ==
    /\ stack \in Stacks
    /\ cryptoKey = OwnKey
    /\ store = {}
    /\ ret = NoRet
    /\ expect = {}
    /\ nforeign = 0
    /\ md_phase = "new"
    /\ md_attrs = {}
    /\ md_init = {}
    /\ md_ret = NoWrite
    /\ conf = [skip_blocks |-> NoSkipFile, continue |-> "None", label |-> "m9"]
    /\ b_manifest = <<>>
    /\ b_manifest0 = <<>>
    /\ b_data = {}
    /\ pc = "idle"
    /\ p_alg = "unbound"
    /\ uploaded = {}
    /\ p_fail = ""
    /\ sq_status = {}
    /\ wm_calls = 0
    /\ lo_ret = NoOrphans
    /\ q_todo = <<>>
    /\ q_handles = <<>>
    /\ q_hist = [h \in Digests |-> <<>>]
    /\ q_puts = [h \in Digests |-> 0]
    /\ cb_ret = NoCommon
    /\ ms_in = NoDict
    /\ ms_ret = NoMode

\* the backends and their wrappers
Spec == Init /\ [][BNext]_vars

\* a FileMetaData instance that is not constructed yet
InitMetaData ==
    /\ stack = <<>>
    /\ cryptoKey = OwnKey
    /\ store = {}
    /\ ret = NoRet
    /\ expect = {}
    /\ nforeign = 0
    /\ md_phase = "new"
    /\ md_attrs = {}
    /\ md_init = {}
    /\ md_ret = NoWrite
    /\ conf = [skip_blocks |-> NoSkipFile, continue |-> "None", label |-> "m9"]
    /\ b_manifest = <<>>
    /\ b_manifest0 = <<>>
    /\ b_data = {}
    /\ pc = "idle"
    /\ p_alg = "unbound"
    /\ uploaded = {}
    /\ p_fail = ""
    /\ sq_status = {}
    /\ wm_calls = 0
    /\ lo_ret = NoOrphans
    /\ q_todo = <<>>
    /\ q_handles = <<>>
    /\ q_hist = [h \in Digests |-> <<>>]
    /\ q_puts = [h \in Digests |-> 0]
    /\ cb_ret = NoCommon
    /\ ms_in = NoDict
    /\ ms_ret = NoMode

\* a command about to run, with its options and the backends' contents
InitCommands ==
    /\ stack = <<>>
    /\ cryptoKey = OwnKey
    /\ store = {}
    /\ ret = NoRet
    /\ expect = {}
    /\ nforeign = 0
    /\ md_phase = "new"
    /\ md_attrs = {}
    /\ md_init = {}
    /\ md_ret = NoWrite
    /\ conf \in Confs
    /\ b_manifest \in ManifestBackends
    /\ b_manifest0 = b_manifest
    /\ b_data \in DataListings
    /\ pc = "idle"
    /\ p_alg = "unbound"
    /\ uploaded = {}
    /\ p_fail = ""
    /\ sq_status = {}
    /\ wm_calls = 0
    /\ lo_ret = NoOrphans
    /\ q_todo = <<>>
    /\ q_handles = <<>>
    /\ q_hist = [h \in Digests |-> <<>>]
    /\ q_puts = [h \in Digests |-> 0]
    /\ cb_ret = NoCommon
    /\ ms_in = NoDict
    /\ ms_ret = NoMode

CmdNext ==
    \/ ListOrphans
    \/ \E mf_names \in LabelLists : CommonBlocks(mf_names)
    \/ \E be_fails \in BOOLEAN, listing \in Orders(b_data) :
           PersistSkipSet(be_fails, listing)
    \/ PersistSubmit
    \/ \E h \in Digests : SqStart(h)
    \/ \E h \in Digests, ok \in BOOLEAN : SqFinish(h, ok)
    \/ PersistRunEnd
    \/ PersistWriteManifest

\* the commands list_orphans and persist
SpecCommands == InitCommands /\ [][CmdNext]_vars

\* a FileMetaData instance
SpecMetaData == InitMetaData /\ [][MDNext]_vars

\* a FileMetaData instance given to mode_to_str
SpecMetaMode == InitMetaData /\ [][MDModeNext]_vars

\* a NameCrypto wrapper over an empty backend
InitNames ==
    /\ stack = <<"NameCrypto">>
    /\ cryptoKey = OwnKey
    /\ store = {}
    /\ ret = NoRet
    /\ expect = {}
    /\ nforeign = 0
    /\ md_phase = "new"
    /\ md_attrs = {}
    /\ md_init = {}
    /\ md_ret = NoWrite
    /\ conf = [skip_blocks |-> NoSkipFile, continue |-> "False", label |-> "m9"]
    /\ b_manifest = <<>>
    /\ b_manifest0 = <<>>
    /\ b_data = {}
    /\ pc = "idle"
    /\ p_alg = "unbound"
    /\ uploaded = {}
    /\ p_fail = ""
    /\ sq_status = {}
    /\ wm_calls = 0
    /\ lo_ret = NoOrphans
    /\ q_todo = <<>>
    /\ q_handles = <<>>
    /\ q_hist = [h \in Digests |-> <<>>]
    /\ q_puts = [h \in Digests |-> 0]
    /\ cb_ret = NoCommon
    /\ ms_in = NoDict
    /\ ms_ret = NoMode

NamesNext ==
    \/ \E n \in SpaceNames, d \in Data : Put(n, d, TRUE)
    \/ \E n \in SpaceNames : Get(n, TRUE)

\* puts and gets through NameCrypto of names that differ in trailing spaces
SpecNames == InitNames /\ [][NamesNext]_vars

\* a property dict about to be given to mode_to_str
InitMode ==
    /\ stack = <<>>
    /\ cryptoKey = OwnKey
    /\ store = {}
    /\ ret = NoRet
    /\ expect = {}
    /\ nforeign = 0
    /\ md_phase = "new"
    /\ md_attrs = {}
    /\ md_init = {}
    /\ md_ret = NoWrite
    /\ conf = [skip_blocks |-> NoSkipFile, continue |-> "False", label |-> "m9"]
    /\ b_manifest = <<>>
    /\ b_manifest0 = <<>>
    /\ b_data = {}
    /\ pc = "idle"
    /\ p_alg = "unbound"
    /\ uploaded = {}
    /\ p_fail = ""
    /\ sq_status = {}
    /\ wm_calls = 0
    /\ lo_ret = NoOrphans
    /\ q_todo = <<>>
    /\ q_handles = <<>>
    /\ q_hist = [h \in Digests |-> <<>>]
    /\ q_puts = [h \in Digests |-> 0]
    /\ cb_ret = NoCommon
    /\ ms_in \in ModeDicts
    /\ ms_ret = NoMode

ModeNext == ModeToStr

\* mode_to_str on a property dict
SpecMode == InitMode /\ [][ModeNext]_vars

\* a run of persistence.persist at its first block, with its skip-set
InitQueue ==
    /\ stack = <<>>
    /\ cryptoKey = OwnKey
    /\ store = {}
    /\ ret = NoRet
    /\ expect = {}
    /\ nforeign = 0
    /\ md_phase = "new"
    /\ md_attrs = {}
    /\ md_init = {}
    /\ md_ret = NoWrite
    /\ conf = [skip_blocks |-> NoSkipFile, continue |-> "False", label |-> "m9"]
    /\ b_manifest = <<>>
    /\ b_manifest0 = <<>>
    /\ b_data = {}
    /\ pc = "queue"
    /\ p_alg = "unbound"
    /\ uploaded \in { {}, { fp("h1") } }
    /\ p_fail = ""
    /\ sq_status = {}
    /\ wm_calls = 0
    /\ lo_ret = NoOrphans
    /\ q_todo \in Streams
    /\ q_handles = <<>>
    /\ q_hist = [h \in Digests |-> <<>>]
    /\ q_puts = [h \in Digests |-> 0]
    /\ cb_ret = NoCommon
    /\ ms_in = NoDict
    /\ ms_ret = NoMode

QueueNext ==
    \/ SqSubmit
    \/ \E h \in Digests : SqStart(h)
    \/ \E h \in Digests, ok \in BOOLEAN : SqFinish(h, ok)
    \/ PersistRunEnd

\* the storage queue of one run
SpecQueue == InitQueue /\ [][QueueNext]_vars

(***************************************************************************)
(* Claims about the backends                                               *)
(***************************************************************************)
get_now(n) == next_get(stack, store, cryptoKey, n, TRUE)

list_now == next_list(stack, store, cryptoKey)

\* C1: on a raw backend that starts empty, after any puts and deletes,
\* list() is exactly the names put and not deleted afterwards, get(name)
\* returns the data of the latest put of name, and a deleted name is not
\* listed.
C1_BackendContract ==
    stack = <<>> =>
        /\ list_now.exc = "" /\ list_now.names = names_of(expect)
        /\ \A o \in expect : get_now(o[1]).exc = "" /\ get_now(o[1]).val = o[2]
        /\ (ret.op = "list" => ret.exc = "" /\ ret.names = names_of(expect))
        /\ (ret.op = "get" /\ ret.name \in names_of(expect)
                => ret.exc = "" /\ ret.val = data_of(expect, ret.name))
        /\ (ret.op = "delete" => ret.name \notin list_now.names)

C1_Witness ==
    /\ stack = <<>>
    /\ ret.op = "delete" /\ ret.exc = ""
    /\ <<LongName, <<>> >> \in expect
    /\ <<LongName, <<>> >> \in store

\* C2: through DataCryptoGPG over a backend, a get after a put of b under
\* the same key returns exactly b, the empty string included.
C2_ContentRoundTrip ==
    (stack = <<"DataCryptoGPG">> /\ nforeign = 0) =>
        /\ \A o \in expect : get_now(o[1]).exc = "" /\ get_now(o[1]).val = o[2]
        /\ (ret.op = "get" /\ ret.exc = ""
                => <<ret.name, ret.val>> \in expect)

C2_Witness ==
    /\ stack = <<"DataCryptoGPG">> /\ nforeign = 0
    /\ ret.op = "get" /\ ret.exc = "" /\ ret.val = <<>>
    /\ \E o \in expect : o[2] # <<>>

\* C3 as claimed: through NameCrypto with one key, every name put, the
\* empty name included, decrypts from its encrypted form to itself and is
\* returned unchanged by list().
C3_NameRoundTrip_AllLengths ==
    (stack = <<"NameCrypto">> /\ nforeign = 0) =>
        /\ \A n \in names_of(expect) :
               NameCrypto_dec(cryptoKey, NameCrypto_enc(cryptoKey, n)) = Ok(n)
        /\ (ret.op = "list" => ret.exc = "" /\ ret.names = names_of(expect))

\* C3 as amended: the same for every name of length at least 1; list()
\* returns the names put unchanged as long as the empty name was not put.
C3_NameRoundTrip ==
    (stack = <<"NameCrypto">> /\ nforeign = 0) =>
        /\ \A n \in names_of(expect) :
               n # <<>> => NameCrypto_dec(cryptoKey, NameCrypto_enc(cryptoKey, n)) = Ok(n)
        /\ (ret.op = "list" /\ <<>> \notin names_of(expect)
                => ret.exc = "" /\ ret.names = names_of(expect))

C3_Witness ==
    /\ stack = <<"NameCrypto">> /\ nforeign = 0
    /\ ret.op = "list" /\ ret.exc = ""
    /\ ret.names = { Rep(97, 12), Rep(97, 17) }

\* The buffer a stored name decrypts to and the length its prefix states
\* (ok: the name is hexadecimal, whole cipher blocks, and not empty)
Decode(secret, cfn) ==
    LET h == hex_decode(cfn)
        d == AES_decrypt(make_key(secret), h.val)
    IN  IF h.exc # "" \/ d.exc # "" \/ Len(d.val) < 4
        THEN [ok |-> FALSE, size |-> 0, prefix |-> 0]
        ELSE [ok |-> TRUE, size |-> Len(d.val),
              prefix |-> struct_unpack(SubSeq(d.val, 1, 4))]

decode_table == [k \in Keys |-> [x \in CipherNames |-> Decode(k, x)]]

Decoded(secret, cfn) ==
    IF secret \in Keys /\ cfn \in CipherNames THEN decode_table[secret][cfn]
    ELSE Decode(secret, cfn)

BadPrefix(secret, cfn) ==
    /\ Decoded(secret, cfn).ok
    /\ \/ Decoded(secret, cfn).prefix <= 0
       \/ Decoded(secret, cfn).prefix > Decoded(secret, cfn).size

C5_WrapperDelete ==
    (stack # <<>> /\ ret.op = "delete") =>
        /\ ret.exc # "NotImplementedError"
        /\ (Head(stack) = "NameCrypto" =>
               /\ NameCrypto_enc(cryptoKey, ret.name) \notin names_of(store)
               /\ ret.name \notin list_now.names)

\* C6 as claimed: a plain BackendWrapper behaves as its inner backend: put
\* stores the pair, get returns the inner get and list the inner list.
C6_WrapperChangesNothing ==
    stack = <<"BackendWrapper">> =>
        /\ store = expect
        /\ (ret.op = "get" =>
               /\ ret.exc = MemoryBackend_get(store, ret.name).exc
               /\ ret.val = MemoryBackend_get(store, ret.name).val)
        /\ (ret.op = "list" =>
               ret.exc = "" /\ ret.names = MemoryBackend_list(store).names)

\* The raw backend holds, for each pair put, the encrypted name with the
\* encrypted data, and nothing else; get through the stack returns the data.
C7_RawHoldsCiphertext ==
    /\ store = { << NameCrypto_enc(cryptoKey, o[1]), enc(cryptoKey, o[2], TRUE).val >> :
                    o \in expect }
    /\ \A r \in store : \A o \in expect : r[1] # o[1] /\ r[2] # o[2]
    /\ \A r \in store : r[1] \notin Names /\ r[2] \notin Data
    /\ \A o \in expect : get_now(o[1]).exc = "" /\ get_now(o[1]).val = o[2]

\* C7 as claimed: under NameCrypto(DataCryptoGPG(raw)) with one key the raw
\* backend holds only ciphertext names and data, get returns the plaintext
\* data and list() the plaintext names.
C7_StackPlaintextOutside_AllNames ==
    (stack = <<"NameCrypto", "DataCryptoGPG">> /\ nforeign = 0) =>
        /\ C7_RawHoldsCiphertext
        /\ list_now.exc = "" /\ list_now.names = names_of(expect)

\* C7 as amended: the same, with list() returning the plaintext names as
\* long as the empty name was not put.
C7_StackPlaintextOutside ==
    (stack = <<"NameCrypto", "DataCryptoGPG">> /\ nforeign = 0) =>
        /\ C7_RawHoldsCiphertext
        /\ <<>> \notin names_of(expect)
               => list_now.exc = "" /\ list_now.names = names_of(expect)

C7_Witness ==
    /\ stack = <<"NameCrypto", "DataCryptoGPG">> /\ nforeign = 0
    /\ ret.op = "list" /\ ret.exc = "" /\ ret.names = { Rep(97, 12), Rep(97, 17) }
    /\ \E o \in expect : o[2] = <<>>
    /\ \E o \in expect : o[2] # <<>>

(***************************************************************************)
(* Claims about FileMetaData                                               *)
(***************************************************************************)
public(attrs) == { a \in attrs : ~startswith_underscore(a[1]) }

\* C8 as claimed: once __init__ has returned every attribute write is
\* rejected and every attribute keeps the value construction gave it.
C8_ReadOnly_AllWrites ==
    md_phase = "done" =>
        /\ md_attrs = md_init
        /\ md_ret.op = "setattr" => md_ret.exc = "AssertionError"

\* C8 as amended: once __init__ has returned, and for as long as the
\* instance's private _FileMetaData__write_protected attribute holds a true
\* value, a write to an attribute whose name does not start with an
\* underscore raises AssertionError, and no write changes the value of such
\* an attribute.
C8_ReadOnly ==
    [][ (md_phase = "done" /\ Truthy(attr(md_attrs, WriteProtected))) =>
            /\ public(md_attrs') = public(md_attrs)
            /\ ~startswith_underscore(md_ret'.key) => md_ret'.exc = "AssertionError"
      ]_vars

C8_Witness ==
    /\ md_phase = "done"
    /\ Truthy(attr(md_attrs, WriteProtected))
    /\ md_ret.op = "setattr" /\ md_ret.key = "uid" /\ md_ret.value = "False"
    /\ md_ret.exc = "AssertionError"
    /\ attr(md_attrs, "uid") = "True"
    /\ md_attrs = md_init

(***************************************************************************)
(* Claims about the commands                                               *)
(***************************************************************************)
\* the hashes of the blocks that the manifests on a backend refer to
referenced(be) == { b[2] : b \in UNION { tree_blocks(be[i][2]) : i \in 1..Len(be) } }

\* C9 as claimed: with manifests on the manifest backend, list_orphans
\* prints exactly the names of the data backend's listing that no manifest
\* refers to, and it ends without an exception when the manifests refer to
\* a block.
C9_OrphansExact ==
    (pc = "listed" /\ b_manifest # <<>>) =>
        /\ lo_ret.exc = "" =>
               lo_ret.printed = { h \in b_data : h \notin referenced(b_manifest) }
        /\ referenced(b_manifest) # {} => lo_ret.exc = ""

file_fps == { fp(h) : h \in elems(conf.skip_blocks.lines) }

manifest_fps == UNION { tree_blocks(b_manifest[i][2]) : i \in 1..Len(b_manifest) }

listing_fps == { fp(h) : h \in b_data }

\* C11 as claimed: the skip-set handed to the run is the union of the
\* fingerprints of the skip-blocks file when that option is given, of the
\* listing of the data backend when continue is given, and of the blocks of
\* the existing manifests whatever the other two options are.
C11_SkipSetSources_Independent ==
    pc = "run" =>
        uploaded = (IF conf.skip_blocks.given THEN file_fps ELSE {})
                       \cup manifest_fps
                       \cup (IF conf.continue = "True" THEN listing_fps ELSE {})

\* C11 as amended: when persist gets to the run, the skip-set is the
\* fingerprints of the skip-blocks file if that option is given and the
\* blocks of the existing manifests if it is not, together with the listing
\* of the data backend if continue is true.
C11_SkipSetSources ==
    pc = "run" =>
        uploaded = (IF conf.skip_blocks.given THEN file_fps ELSE manifest_fps)
                       \cup (IF conf.continue = "True" THEN listing_fps ELSE {})

C11_Witness ==
    /\ pc = "run"
    /\ conf.skip_blocks.given /\ conf.continue = "True"
    /\ fp("h1") \in file_fps
    /\ fp("h3") \in listing_fps /\ fp("h3") \in uploaded
    /\ fp("h2") \in manifest_fps /\ fp("h2") \notin uploaded

(***************************************************************************)
(* Claims about the storage queue                                          *)
(***************************************************************************)
\* the submissions made of a hash
handles_of(h) == { i \in 1..Len(q_handles) : q_handles[i] = h }

\* C12: in one run of the storage queue the status of a hash only moves
\* pending -> in-flight -> done or failed; a hash that the queue has is not
\* enqueued again, so that however many times a block is submitted and
\* however the workers interleave there is at most one put call for it, and
\* exactly one once it is in flight; every submission has the status of its
\* hash, so that all submissions of a block whose put returned are done, and
\* a run that ends without a failure has every submission done.
C12_QueueDedup ==
    /\ \A h \in Digests :
           /\ q_hist[h] \in { <<>>, <<"pending">>, <<"pending", "in-flight">>,
                            <<"pending", "in-flight", "done">>,
                            <<"pending", "in-flight", "failed">> }
           /\ q_puts[h] = (IF Len(q_hist[h]) >= 2 THEN 1 ELSE 0)
           /\ Cardinality({ s \in sq_status : s[1] = h }) <= 1
           /\ (handles_of(h) # {}) = (\E s \in sq_status : s[1] = h)
           /\ \A s \in sq_status : s[1] = h => s[2] = q_hist[h][Len(q_hist[h])]
    /\ pc = "write" =>
           \A i \in 1..Len(q_handles) :
               <<q_handles[i], "done">> \in sq_status /\ q_puts[q_handles[i]] = 1

C12_Witness ==
    /\ pc = "write"
    /\ Cardinality(handles_of("h2")) = 2
    /\ <<"h2", "done">> \in sq_status
    /\ q_puts["h2"] = 1
    /\ <<"h3", "done">> \in sq_status

(***************************************************************************)
(* More claims about the backends                                          *)
(***************************************************************************)
\* C13: through DataCryptoGPG, a put whose encryption fails raises and
\* leaves the inner backend as it was, with nothing stored under the name;
\* a get whose decryption fails (gpg fails, or the object stored does not
\* decrypt under the key) raises and returns no data; a get that returns
\* data returns the decryption of the object stored.
C13_CryptoFailuresRaise ==
    stack = <<"DataCryptoGPG">> =>
        /\ \A n \in Names, d \in Data :
               LET r == next_put(stack, store, cryptoKey, <<n, d>>, FALSE)
               IN  r.exc # "" /\ r.store = store
        /\ \A o \in store :
               LET r == next_get(stack, store, cryptoKey, o[1], TRUE)
                   f == next_get(stack, store, cryptoKey, o[1], FALSE)
               IN  /\ f.exc # "" /\ f.val = <<>> /\ f.store = store
                   /\ gpg_decrypt(cryptoKey, o[2]).exc # ""
                          => r.exc # "" /\ r.val = <<>> /\ r.store = store
                   /\ r.exc = "" => gpg_decrypt(cryptoKey, o[2]) = Ok(r.val)
        /\ (ret.op = "put" /\ ret.exc # "" /\ nforeign = 0
                => (ret.name \in names_of(store)) = (ret.name \in names_of(expect)))
        /\ (ret.op = "get" /\ ret.exc # "" => ret.val = <<>>)
        /\ (ret.op = "get" /\ ret.exc = "" /\ nforeign = 0
                => \E o \in store : /\ o[1] = ret.name
                                    /\ gpg_decrypt(cryptoKey, o[2]) = Ok(ret.val))

C13_Witness ==
    /\ stack = <<"DataCryptoGPG">>
    /\ ret.op = "get" /\ ret.exc = "GPG failed" /\ ret.val = <<>>
    /\ \E o \in store : o[1] = ret.name /\ gpg_decrypt(cryptoKey, o[2]).exc # ""
    /\ \E o \in store : gpg_decrypt(cryptoKey, o[2]).exc = ""

\* C14 as claimed: a stored name that NameCrypto.__dec decodes to a name
\* decodes to a name of exactly as many bytes as its length prefix states.
C14_ExactLength ==
    (stack # <<>> /\ Head(stack) = "NameCrypto") =>
        \A x \in names_of(store) :
            NameCrypto_dec(cryptoKey, x).exc = ""
                => Len(NameCrypto_dec(cryptoKey, x).val) = Decoded(cryptoKey, x).prefix

(***************************************************************************)
(* More claims about the commands                                          *)
(***************************************************************************)
\* the distinct block fingerprints of the manifest under a label
blocks_of(label) == tree_blocks(read_manifest(b_manifest, label))

\* the fingerprints that are in every manifest named
in_all(mf_names) ==
    { x \in blocks_of(mf_names[1]) :
        \A i \in 1..Len(mf_names) : x \in blocks_of(mf_names[i]) }

\* C15 as claimed: common_blocks over one or more manifests, manifests
\* without entries included, ends without an exception, reports as common
\* the number of fingerprints that are in every manifest and for each
\* manifest the number of its distinct fingerprints less that number.
C15_CommonBlocks ==
    pc = "common" =>
        /\ cb_ret.exc = ""
        /\ cb_ret.common = Cardinality(in_all(cb_ret.names))
        /\ Len(cb_ret.unique) = Len(cb_ret.names)
        /\ \A i \in 1..Len(cb_ret.names) :
               cb_ret.unique[i] = Cardinality(blocks_of(cb_ret.names[i]))
                                      - Cardinality(in_all(cb_ret.names))

\* what does hold: the same for manifests that each have an entry
C15_CommonBlocks_WithEntries ==
    (pc = "common" /\ \A i \in 1..Len(cb_ret.names) :
                          read_manifest(b_manifest, cb_ret.names[i]) # <<>>) =>
        /\ cb_ret.exc = ""
        /\ cb_ret.common = Cardinality(in_all(cb_ret.names))
        /\ Len(cb_ret.unique) = Len(cb_ret.names)
        /\ \A i \in 1..Len(cb_ret.names) :
               cb_ret.unique[i] = Cardinality(blocks_of(cb_ret.names[i]))
                                      - Cardinality(in_all(cb_ret.names))

(***************************************************************************)
(* Claims about mode_to_str                                                *)
(***************************************************************************)
\* the character of the first type flag that is true, in the order regular,
\* block device, character device, directory, symlink, fifo
first_type(true) ==
    IF "is_regular" \in true THEN "-"
    ELSE IF "is_block_device" \in true THEN "b"
    ELSE IF "is_character_device" \in true THEN "c"
    ELSE IF "is_directory" \in true THEN "d"
    ELSE IF "is_symlink" \in true THEN "l"
    ELSE "p"

\* the characters 2..10 for a dict that is not a symlink's
PermsShown(true, val) ==
    /\ val[2] = (IF "user_read" \in true THEN "r" ELSE "-")
    /\ val[3] = (IF "user_write" \in true THEN "w" ELSE "-")
    /\ val[4] = (IF "is_setuid" \in true
                 THEN (IF "user_execute" \in true THEN "s" ELSE "S")
                 ELSE (IF "user_execute" \in true THEN "x" ELSE "-"))
    /\ val[5] = (IF "group_read" \in true THEN "r" ELSE "-")
    /\ val[6] = (IF "group_write" \in true THEN "w" ELSE "-")
    /\ val[7] = (IF "is_setgid" \in true
                 THEN (IF "group_execute" \in true THEN "s" ELSE "S")
                 ELSE (IF "group_execute" \in true THEN "x" ELSE "-"))
    /\ val[8] = (IF "other_read" \in true THEN "r" ELSE "-")
    /\ val[9] = (IF "other_write" \in true THEN "w" ELSE "-")
    /\ val[10] = (IF "is_sticky" \in true
                  THEN (IF "other_execute" \in true THEN "t" ELSE "T")
                  ELSE (IF "other_execute" \in true THEN "x" ELSE "-"))

\* C16 as claimed: for a dict with a type flag true mode_to_str returns ten
\* characters, the first one that of the first true type flag; for a dict
\* with is_symlink true it returns lrwxr-xr-x; otherwise the other nine show
\* the permission, setuid, setgid and sticky bits; with no type flag true it
\* raises AssertionError.
C16_ModeString_SymlinkAlways ==
    ms_ret.called =>
        IF ms_in.true \cap TypeFlags = {}
        THEN ms_ret.exc = "AssertionError"
        ELSE /\ ms_ret.exc = ""
             /\ Len(ms_ret.val) = 10
             /\ ms_ret.val[1] = first_type(ms_in.true)
             /\ IF "is_symlink" \in ms_in.true
                THEN ms_ret.val = <<"l", "r", "w", "x", "r", "-", "x", "r", "-", "x">>
                ELSE PermsShown(ms_in.true, ms_ret.val)

\* C16 as amended: the same, but with is_symlink true the first character
\* is still that of the first true type flag (l only if no flag before
\* is_symlink is true) and the other nine are rwxr-xr-x.
C16_ModeString ==
    ms_ret.called =>
        IF ms_in.true \cap TypeFlags = {}
        THEN ms_ret.exc = "AssertionError"
        ELSE /\ ms_ret.exc = ""
             /\ Len(ms_ret.val) = 10
             /\ ms_ret.val[1] = first_type(ms_in.true)
             /\ IF "is_symlink" \in ms_in.true
                THEN SubSeq(ms_ret.val, 2, 10) = <<"r", "w", "x", "r", "-", "x", "r", "-", "x">>
                ELSE PermsShown(ms_in.true, ms_ret.val)

C16_Witness ==
    /\ ms_ret.called
    /\ ms_in.true = { "is_directory", "is_fifo", "user_read", "user_execute", "is_setuid",
                      "is_setgid", "group_write", "other_execute", "is_sticky" }
    /\ ms_ret.val = <<"d", "r", "-", "s", "-", "w", "S", "-", "-", "t">>

(***************************************************************************)
(* Claims about the names NameCrypto stores under                          *)
(***************************************************************************)

\* C17: under one key NameCrypto.__enc gives different names, names that
\* differ only in trailing spaces included, different lowercase hexadecimal
\* names, so that the inner backend holds one object for each name put,
\* under the encrypted name and with the data last put under that name, and
\* a get of a name returns the data put under that name.
C17_EncInjective ==
    /\ \A n1, n2 \in names_of(expect) \cup {ret.name} :
           n1 # n2 => NameCrypto_enc(cryptoKey, n1) # NameCrypto_enc(cryptoKey, n2)
    /\ store = { << NameCrypto_enc(cryptoKey, o[1]), o[2] >> : o \in expect }
    /\ Cardinality(store) = Cardinality(names_of(expect))
    /\ \A r \in store : \A i \in 1..Len(r[1]) : r[1][i] \in (48..57) \cup (97..102)
    /\ (ret.op = "get" /\ ret.name \in names_of(expect)
            => ret.exc = "" /\ <<ret.name, ret.val>> \in expect)

C17_Witness ==
    /\ <<97>> \in names_of(expect) /\ <<97, 32>> \in names_of(expect)
    /\ data_of(expect, <<97>>) # data_of(expect, <<97, 32>>)
    /\ Rep(97, 12) \in names_of(expect) /\ (Rep(97, 12) \o <<32>>) \in names_of(expect)
    /\ ret.op = "get" /\ ret.name = <<97>> /\ ret.exc = ""
    /\ ret.val = data_of(expect, <<97>>)

(***************************************************************************)
(* Claims about FileMetaData as mode_to_str's argument                     *)
(***************************************************************************)
\* C18 as claimed: for a constructed FileMetaData md[key] is defined for
\* every key that mode_to_str reads, and mode_to_str(md) does not raise
\* KeyError.
C18_ModeKeysDeclared ==
    md_phase = "done" =>
        /\ \A k \in ModeKeys : FileMetaData_getitem(md_attrs, k).exc = ""
        /\ ms_ret.called => ms_ret.exc # "KeyError"

(***************************************************************************)
(* Claims about the hashes persist loads into the skip-set                 *)
(***************************************************************************)
\* C19 as claimed: every fingerprint in the skip-set that persist built is
\* ('sha512', h) with h of 128 characters, and a skip-blocks file that can be
\* read never makes the load fail for want of a preceding 128-character line.
C19_OnlyDigests ==
    /\ \A u \in uploaded : u[1] = "sha512" /\ len_of(u[2]) = 128
    /\ (pc = "aborted" /\ p_fail = "skip-set" /\ conf.skip_blocks.readable)
           => load_hashes(conf.skip_blocks.lines, "unbound", {}).exc = ""

\* C20 as claimed: when persist has built its skip-set with no skip-blocks
\* file configured, the scan of the old manifests has succeeded whatever the
\* manifest backend holds and has added exactly the fingerprints that the
\* manifests reference, and they are in the skip-set of the run.
C20_OldManifestsAlways ==
    (pc \in {"run", "aborted"} /\ ~conf.skip_blocks.given) =>
        LET r == persist_old_manifests(conf, b_manifest, FALSE, "unbound", {})
        IN  /\ r.exc = ""
            /\ r.uploaded = manifest_fps
            /\ pc = "run" => manifest_fps \subseteq uploaded

====
